---- MODULE Spec2Model ----
(***************************************************************************)
(* The client-side workflow controller of the LCA dashboard:              *)
(*   - the page controller (frontend/src/routes/+page.svelte): activeTab, *)
(*     isLoading, currentResults, currentCircularity, comparisons and the *)
(*     handlers handleProcessAnalysis, handleComparisonRequest,           *)
(*     setActiveTab and loadStoredComparisons;                            *)
(*   - the input form component (unnamed/part_003, mounted by the page as *)
(*     ProcessInput): processData, errors, isSubmitting,                  *)
(*     comparisonProcesses, showComparison and the handlers handleSubmit, *)
(*     addToComparison, removeFromComparison, runComparison;              *)
(*   - validateProcessInput and createToast (unnamed/part_000);           *)
(*   - the gateway (frontend/src/lib/api.js).                             *)
(*                                                                         *)
(* JavaScript runs every handler to its next await without interruption,  *)
(* and a settled promise's continuation runs before any other event is    *)
(* handled.  One action is therefore either the synchronous start of a    *)
(* handler (up to the request it issues) or the arrival of one response   *)
(* together with the continuation it resumes (up to the next request or   *)
(* the end of the handler).  Svelte re-renders after each such segment,   *)
(* so the form component is created and destroyed at action boundaries.   *)
(***************************************************************************)
EXTENDS Integers, Sequences, FiniteSets, TLC

\* ------------------------------------------------------------------ bounds

\* Most entries the comparison queue may hold before add is no longer tried.
MaxQueue == 2
\* The same when the form is exercised on its own: long enough for a
\* removal in the middle to leave entries on both sides.
MaxFormQueue == 3
\* Most stored-analyses fetches outstanding at one time.
MaxStoredFetches == 1

\* ------------------------------------------------------- JavaScript values

\* The value of a numeric form field.  bind:value on <input type="number">
\* yields a number, or null once the field has been cleared; the component
\* initialises the fields with '' and loadExampleData with numeric strings.
\*   t = "empty"  : ''            t = "null"   : null
\*   t = "num"    : the number v  t = "numstr" : a non-empty string reading v
EmptyStr == [t |-> "empty", v |-> 0]
Null == [t |-> "null", v |-> 0]
Num(n) == [t |-> "num", v |-> n]
NumStr(n) == [t |-> "numstr", v |-> n]

\* JavaScript truthiness: '', null and the number 0 are falsy; every
\* non-empty string (also '0') and every other number is truthy.
Truthy(x) == (x.t = "num" /\ x.v # 0) \/ x.t = "numstr"

\* The number a relational operator (<, <=, >) coerces its operand to.
ToNumber(x) == IF x.t \in {"num", "numstr"} THEN x.v ELSE 0

\* parseFloat of a number or of a numeric string.
ParseFloat(x) == Num(x.v)

\* Truthiness of a <select> value: '' is falsy, an option value is truthy.
TruthyStr(s) == s # ""

\* --------------------------------------------------------------- the form

RequiredSelects == {"metal_type", "process_route", "energy_source",
                    "processing_location", "end_of_life_option"}
OptionalNumbers == {"energy_consumption", "transport_distance",
                    "ore_grade", "recycling_rate"}
Fields == RequiredSelects \cup OptionalNumbers \cup {"production_capacity"}

\* The component's initial processData, also what clearForm restores.
BlankForm == [metal_type |-> "", process_route |-> "",
              production_capacity |-> EmptyStr, energy_source |-> "",
              energy_consumption |-> EmptyStr, transport_distance |-> EmptyStr,
              processing_location |-> "", ore_grade |-> EmptyStr,
              end_of_life_option |-> "", recycling_rate |-> EmptyStr]

\* What loadExampleData puts in the form (numeric strings; the ore grade
\* '1.5' is counted in whole units, which no comparison in the code tells
\* apart from 1.5: it only tests < 0, > 100 and truthiness).
ExampleForm == [metal_type |-> "Aluminium", process_route |-> "Primary",
                production_capacity |-> NumStr(7500),
                energy_source |-> "Mixed (Coal + Solar)",
                energy_consumption |-> NumStr(45),
                transport_distance |-> NumStr(125),
                processing_location |-> "Odisha, India", ore_grade |-> NumStr(2),
                end_of_life_option |-> "Recycling", recycling_rate |-> NumStr(65)]

\* The end-to-end scenario of the specification: every optional field left
\* untouched, the capacity typed into the number input.
ScenarioForm == [BlankForm EXCEPT !.metal_type = "Aluminium",
                                  !.process_route = "Primary",
                                  !.production_capacity = Num(7500),
                                  !.energy_source = "Mixed (Coal + Solar)",
                                  !.processing_location = "Odisha, India",
                                  !.end_of_life_option = "Recycling"]

\* The scenario with a capacity the capacity input accepts: the input has
\* min="1" and step="100", so that the browser lets 1, 101, ..., 7401, 7501
\* pass and refuses 7500.
AcceptedForm == [ScenarioForm EXCEPT !.production_capacity = Num(7501)]

\* One input event: the control of field f is given the value x.  The input
\* events the page is exercised with: the capacity is typed, which after
\* Load Example gives the one content of these the browser accepts.
PageEdits == {<<"production_capacity", Num(7501)>>}

\* The input events the form is exercised with on its own: each required
\* control is given its value of the accepted form, one control at a time,
\* and the metal is set back to the placeholder option (value "").
FormEdits ==
    {<<f, AcceptedForm[f]>> : f \in RequiredSelects \cup {"production_capacity"}}
        \cup {<<"metal_type", "">>}

\* The values a numeric field holds when the handlers are exercised on
\* their own: left untouched (''), cleared (null), and numbers on both
\* sides of and on each limit validateProcessInput tests.
CapacityValues == {EmptyStr, Null, Num(0), Num(0 - 5)}
NonNegativeValues == {Null, Num(0 - 1), Num(0)}
PercentValues == {Num(0 - 1), Num(0), Num(100), Num(101), Num(150)}

\* The form contents for that, each one the user can bring about with
\* input events on a new form (or with Load Example) and no click in
\* between: the untouched form, the example, the accepted form, and the
\* accepted form with one field different (a select left unchosen, a
\* numeric field with one of the values above) or with two fields failing.
ValidationInputs ==
    {BlankForm, ExampleForm, AcceptedForm}
        \cup {[AcceptedForm EXCEPT ![f] = ""] : f \in RequiredSelects}
        \cup {[AcceptedForm EXCEPT !.production_capacity = x] : x \in CapacityValues}
        \cup {[AcceptedForm EXCEPT ![f] = x] :
                 f \in {"energy_consumption", "transport_distance"},
                 x \in NonNegativeValues}
        \cup {[AcceptedForm EXCEPT ![f] = x] :
                 f \in {"ore_grade", "recycling_rate"}, x \in PercentValues}
        \cup {[AcceptedForm EXCEPT !.metal_type = "", !.ore_grade = Num(150)]}

\* The browser's constraint validation of the form's controls, which
\* precedes the submit event (the form has no novalidate): the five selects
\* and the capacity are required; the capacity has min="1" step="100"; the
\* energy consumption and the transport distance have min="0"; the ore
\* grade and the recycling rate have min="0" max="100".  A control bound to
\* '' or null is empty.  The optional inputs' steps (0.1 and 1, counted
\* from 0) admit every whole number.
ConstraintsSatisfied(pd) ==
    /\ \A f \in RequiredSelects : pd[f] # ""
    /\ pd.production_capacity.t \in {"num", "numstr"}
    /\ pd.production_capacity.v >= 1
    /\ (pd.production_capacity.v - 1) % 100 = 0
    /\ \A f \in {"energy_consumption", "transport_distance"} :
          pd[f].t \in {"num", "numstr"} => pd[f].v >= 0
    /\ \A f \in {"ore_grade", "recycling_rate"} :
          pd[f].t \in {"num", "numstr"} => (pd[f].v >= 0 /\ pd[f].v <= 100)

\* ------------------------------------------------------------ validation

ErrorMessage == [f \in Fields |->
    CASE f = "metal_type" -> "Metal type is required"
      [] f = "process_route" -> "Process route is required"
      [] f = "production_capacity" -> "Production capacity must be greater than 0"
      [] f = "energy_source" -> "Energy source is required"
      [] f = "processing_location" -> "Processing location is required"
      [] f = "end_of_life_option" -> "End of life option is required"
      [] f = "energy_consumption" -> "Energy consumption cannot be negative"
      [] f = "transport_distance" -> "Transport distance cannot be negative"
      [] f = "ore_grade" -> "Ore grade must be between 0 and 100"
      [] f = "recycling_rate" -> "Recycling rate must be between 0 and 100"]

\* Mutant of FieldFails: the percentages have no upper limit.
FieldFailsNoUpperLimit(input, f) ==
    CASE f \in RequiredSelects -> ~TruthyStr(input[f])
      [] f = "production_capacity" ->
            ~Truthy(input[f]) \/ ToNumber(input[f]) <= 0
      [] f \in OptionalNumbers ->
            Truthy(input[f]) /\ ToNumber(input[f]) < 0

\* The condition of the if statement that sets errors[f].
FieldFails(input, f) ==
    CASE f \in RequiredSelects -> ~TruthyStr(input[f])
      [] f = "production_capacity" ->
            ~Truthy(input[f]) \/ ToNumber(input[f]) <= 0
      [] f \in {"energy_consumption", "transport_distance"} ->
            Truthy(input[f]) /\ ToNumber(input[f]) < 0
      [] f \in {"ore_grade", "recycling_rate"} ->
            Truthy(input[f]) /\ (ToNumber(input[f]) < 0 \/ ToNumber(input[f]) > 100)

\* Mutant of validateProcessInput: the checks stop at the first failure.
validateProcessInputFirstOnly(input) ==
    LET failing == {f \in Fields : FieldFails(input, f)}
        first == IF failing = {} THEN {}
                 ELSE {CHOOSE f \in failing : TRUE}
        errs == [f \in first |-> ErrorMessage[f]]
    IN  [isValid |-> (DOMAIN errs = {}), errors |-> errs]

validateProcessInput(input) ==
    LET failing == {f \in Fields : FieldFails(input, f)}
        errs == [f \in failing |-> ErrorMessage[f]]
    IN  [isValid |-> (DOMAIN errs = {}), errors |-> errs]

NoErrors == [f \in {} |-> ""]

\* The object handleSubmit dispatches: the form with its numbers parsed and
\* every falsy optional field replaced by null.
Optional(x) == IF Truthy(x) THEN ParseFloat(x) ELSE Null

ProcessedData(pd) ==
    [pd EXCEPT !.production_capacity = ParseFloat(pd.production_capacity),
               !.energy_consumption = Optional(pd.energy_consumption),
               !.transport_distance = Optional(pd.transport_distance),
               !.ore_grade = Optional(pd.ore_grade),
               !.recycling_rate = Optional(pd.recycling_rate)]

\* Mutant of ProcessName: the route comes first.
ProcessNameRouteFirst(pd) == <<pd.process_route, " - ", pd.metal_type>>

\* The object addToComparison appends: the same, with a synthesized name.
ProcessName(pd) == <<pd.metal_type, " - ", pd.process_route>>

NamedProcessedData(pd) ==
    LET p == ProcessedData(pd)
    IN  [name |-> ProcessName(pd),
         metal_type |-> p.metal_type, process_route |-> p.process_route,
         production_capacity |-> p.production_capacity,
         energy_source |-> p.energy_source,
         energy_consumption |-> p.energy_consumption,
         transport_distance |-> p.transport_distance,
         processing_location |-> p.processing_location,
         ore_grade |-> p.ore_grade,
         end_of_life_option |-> p.end_of_life_option,
         recycling_rate |-> p.recycling_rate]

\* ------------------------------------------------------------ the gateway

Tabs == {"input", "results", "circularity", "comparison", "metrics"}

\* What axios rejects a request with: a transport failure carries no
\* response; an application failure carries the response and, when the
\* service sent one, its detail text ("" stands for no detail).
AxiosErrors ==
    {[message |-> "Network Error", hasResponse |-> FALSE, status |-> 0,
      detail |-> ""],
     [message |-> "Request failed with status code 500", hasResponse |-> TRUE,
      status |-> 500, detail |-> "Internal Server Error"]}

\* The failures among them that carry no response.
TransportErrors == {e \in AxiosErrors : ~e.hasResponse}

\* error.response?.data?.detail || error.message
DetailOrMessage(e) ==
    IF e.hasResponse /\ e.detail # "" THEN e.detail ELSE e.message

\* The Error each gateway operation throws from its catch block: an object
\* with a message and nothing else.
GatewayError(op, e) ==
    CASE op = "analyzeLCA" ->
            [message |-> <<"LCA analysis failed: ", DetailOrMessage(e)>>]
      [] op = "analyzeCircularity" ->
            [message |-> <<"Circularity analysis failed: ", DetailOrMessage(e)>>]
      [] op = "compareProcesses" ->
            [message |-> <<"Process comparison failed: ", e.message>>]
      [] op = "getStoredComparisons" ->
            [message |-> <<"Failed to get stored comparisons: ", e.message>>]
      [] op = "checkHealth" ->
            [message |-> <<"Health check failed: ", e.message>>]
      [] op = "getModelMetrics" ->
            [message |-> <<"Failed to get model metrics: ", e.message>>]

\* One request handed to the axios client; body is the list of process
\* descriptions it carries (one for an analysis, the queue for a comparison,
\* none for a GET).
Request(id, op, body) == [id |-> id, op |-> op, body |-> body]

\* response.data of the two analysis endpoints: opaque to the client, known
\* here by the request it answers.
LcaData(r) == [op |-> "lca", req |-> r.id]
CircularityData(r) == [op |-> "circularity", req |-> r.id]

\* The entries the compare endpoint computes for the processes it was sent.
Scenarios(r) ==
    [i \in 1..Len(r.body) |->
        [process |-> r.body[i], lca |-> [op |-> "compare", input |-> r.body[i]]]]

\* The response bodies the compare endpoint may send: the entries (or none)
\* under 'scenarios', under 'comparisons', under neither, or a
\* listing-shaped body.
CompareBodies(r) ==
    {[k \in {"scenarios"} |-> Scenarios(r)],
     [k \in {"comparisons"} |-> Scenarios(r)],
     [k \in {"scenarios"} |-> <<>>],
     [k \in {"comparisons"} |-> <<>>],
     [k \in {"analyses"} |->
        [i \in 1..Len(r.body) |->
            [input |-> r.body[i],
             results |-> [op |-> "compare", input |-> r.body[i]]]]],
     [k \in {} |-> <<>>]}

\* How many analyses the service's store may return in one listing.
StoredCounts == {0, 1, 2, 3}

\* The stored analyses, oldest first.
StoredAnalyses(n) ==
    [i \in 1..n |->
        [input |-> ProcessedData(ScenarioForm),
         results |-> [op |-> "stored", no |-> i]]]

\* The stored analyses as comparison entries, the shape of the compare
\* endpoint's response.
StoredScenarios(n) ==
    [i \in 1..n |->
        [process |-> StoredAnalyses(n)[i].input,
         lca |-> StoredAnalyses(n)[i].results]]

\* The response bodies the listing endpoint may send: the analyses under
\* 'analyses', a compare-shaped body, or an empty object.
StoredBodies ==
    {[k \in {"analyses"} |-> StoredAnalyses(n)] : n \in StoredCounts}
        \cup {[k \in {"scenarios"} |-> StoredScenarios(2)],
              [k \in {} |-> <<>>]}

\* The health reports the service may send.
HealthBodies == {[status |-> "healthy"], [status |-> "degraded"]}

\* response.data of the model-metrics endpoint: opaque to the client.
MetricsData == [op |-> "metrics"]

\* obj.key is truthy: the key is there (every value here is an array, and
\* an array, even an empty one, is truthy).
Has(obj, key) == key \in DOMAIN obj

\* ------------------------------------------------------------------ state

VARIABLES
    activeTab,           \* +page.svelte: the tab shown
    apiHealth,           \* +page.svelte: the last health report
    modelMetrics,        \* +page.svelte: the model metrics, or null
    isLoading,           \* +page.svelte: the busy flag
    currentResults,      \* +page.svelte: the last LCA result, or null
    currentCircularity,  \* +page.svelte: the last circularity result, or null
    comparisons,         \* +page.svelte: the comparison entries shown
    processData,         \* form: the fields
    errors,              \* form: the field-error map
    isSubmitting,        \* form: the submit button's disabled flag
    comparisonProcesses, \* form: the comparison queue
    showComparison,      \* form: the comparison-mode flag
    tasks,               \* handler invocations suspended at an await
    requests,            \* requests the client has sent and not seen answered
    toasted              \* the createToast calls of the latest handler segment

mountVars == <<apiHealth, modelMetrics>>
pageVars == <<activeTab, isLoading, currentResults, currentCircularity, comparisons,
              apiHealth, modelMetrics>>
formVars == <<processData, errors, isSubmitting, comparisonProcesses, showComparison>>
vars == <<activeTab, isLoading, currentResults, currentCircularity, comparisons,
          processData, errors, isSubmitting, comparisonProcesses, showComparison,
          tasks, requests, toasted, apiHealth, modelMetrics>>

\* Mutant of Mounted: the form is rendered while the page is busy, too.
MountedWhileBusy(tab, loading) == tab = "input"

\* The page renders the form only inside {:else} of {#if isLoading} and
\* only on the input tab.
Mounted(tab, loading) == ~loading /\ tab = "input"

\* The form's state once the page has re-rendered: a component that stays
\* mounted keeps what its handler assigned; one that is destroyed loses its
\* state, and the next instance starts from the initial values.
Render(pd, er, sub, cp, sc) ==
    LET stays == Mounted(activeTab, isLoading) /\ Mounted(activeTab', isLoading')
    IN  /\ processData' = IF stays THEN pd ELSE BlankForm
        /\ errors' = IF stays THEN er ELSE NoErrors
        /\ isSubmitting' = IF stays THEN sub ELSE FALSE
        /\ comparisonProcesses' = IF stays THEN cp ELSE <<>>
        /\ showComparison' = IF stays THEN sc ELSE FALSE

KeepForm == Render(processData, errors, isSubmitting, comparisonProcesses, showComparison)

\* createToast(message, type): a toast is put on screen.  Nothing reads the
\* toasts back (a timer removes each after 5 s), so the state keeps only
\* what the latest handler segment has put up.
createToast(message, type) ==
    toasted' = <<[message |-> message, type |-> type]>>

\* A handler segment that calls createToast nowhere.
NoToast == toasted' = <<>>

\* An identity for a new invocation of a handler: the least number that no
\* suspended invocation of that handler carries and, for an analysis, that
\* no held result carries.
HeldIds ==
    (IF currentResults = Null THEN {} ELSE {currentResults.req})
        \cup (IF currentCircularity = Null THEN {} ELSE {currentCircularity.req})

UsedIds(handler) ==
    {t.id : t \in {u \in tasks : u.handler = handler}}
        \cup (IF handler = "handleProcessAnalysis" THEN HeldIds ELSE {})

FreshId(handler) ==
    CHOOSE i \in 1..(Cardinality(UsedIds(handler)) + 1) :
        i \notin UsedIds(handler) /\ \A j \in 1..(i - 1) : j \in UsedIds(handler)

\* A handler invocation suspended at an await: pc names the gateway
\* operation it awaits, arg is the handler's argument (event.detail), and
\* issued lists the requests it has sent so far, in order.
Task(id, handler, pc, arg, issued) ==
    [id |-> id, handler |-> handler, pc |-> pc, arg |-> arg, issued |-> issued]

Running(handler) == {t \in tasks : t.handler = handler}

\* The invocations that hold the busy flag.
Submits == Running("handleProcessAnalysis") \cup Running("handleComparisonRequest")

\* The variables as the page and the form declare them.
Constructed ==
    /\ activeTab = "input"
    /\ isLoading = FALSE
    /\ apiHealth = [status |-> "unknown"]
    /\ currentResults = Null
    /\ currentCircularity = Null
    /\ modelMetrics = Null
    /\ comparisons = <<>>
    /\ processData = BlankForm
    /\ errors = NoErrors
    /\ isSubmitting = FALSE
    /\ comparisonProcesses = <<>>
    /\ showComparison = FALSE
    /\ toasted = <<>>

\* The page once onMount has returned without having reached the service:
\* both of its calls failed, apiHealth and modelMetrics are as declared,
\* and the failure's toast has timed out.  No handler reads apiHealth or
\* modelMetrics, so what follows does not depend on how onMount ended.
Init ==
    /\ Constructed
    /\ tasks = {}
    /\ requests = {}

\* The page as it is mounted: onMount has called checkApiHealth, which is
\* suspended at its await with the health request sent.
MountInit ==
    /\ Constructed
    /\ tasks = {Task(1, "onMount", "checkHealth", <<>>,
                     <<Request(1, "checkHealth", <<>>)>>)}
    /\ requests = {Request(1, "checkHealth", <<>>)}

\* ------------------------------------------------------- the mount hook

\* loadModelMetrics up to its await, called by onMount once checkApiHealth
\* has returned.
StartMetrics(t, r) ==
    /\ requests' = (requests \ {r}) \cup {Request(t.id, "getModelMetrics", <<>>)}
    /\ tasks' = (tasks \ {t})
                   \cup {Task(t.id, t.handler, "getModelMetrics", t.arg,
                              Append(t.issued,
                                     Request(t.id, "getModelMetrics", <<>>)))}

\* The health request is answered: the report is stored, a success toast
\* is shown for a healthy service, and onMount goes on to the metrics.
HealthResolves(t, r, body) ==
    /\ t \in Running("onMount") /\ t.pc = "checkHealth"
    /\ r \in requests /\ r.id = t.id /\ r.op = "checkHealth"
    /\ apiHealth' = body
    /\ IF body.status = "healthy"
       THEN createToast(<<"API connection established successfully">>, "success")
       ELSE NoToast
    /\ StartMetrics(t, r)
    /\ UNCHANGED <<activeTab, isLoading, currentResults, currentCircularity,
                   comparisons, modelMetrics>>
    /\ KeepForm

\* The health request fails: the catch block shows an error toast, and
\* onMount goes on to the metrics.
HealthRejects(t, r, e) ==
    /\ t \in Running("onMount") /\ t.pc = "checkHealth"
    /\ r \in requests /\ r.id = t.id /\ r.op = "checkHealth"
    /\ createToast(<<"API connection failed. Please check backend status.">>,
                   "error")
    /\ StartMetrics(t, r)
    /\ UNCHANGED <<activeTab, isLoading, currentResults, currentCircularity,
                   comparisons, apiHealth, modelMetrics>>
    /\ KeepForm

\* The metrics request is answered: the metrics are stored.
MetricsResolves(t, r) ==
    /\ t \in Running("onMount") /\ t.pc = "getModelMetrics"
    /\ r \in requests /\ r.id = t.id /\ r.op = "getModelMetrics"
    /\ modelMetrics' = MetricsData
    /\ requests' = requests \ {r}
    /\ tasks' = tasks \ {t}
    /\ UNCHANGED <<activeTab, isLoading, currentResults, currentCircularity,
                   comparisons, apiHealth>>
    /\ NoToast
    /\ KeepForm

\* The metrics request fails: the catch block only logs to the console.
MetricsRejects(t, r, e) ==
    /\ t \in Running("onMount") /\ t.pc = "getModelMetrics"
    /\ r \in requests /\ r.id = t.id /\ r.op = "getModelMetrics"
    /\ requests' = requests \ {r}
    /\ tasks' = tasks \ {t}
    /\ UNCHANGED <<activeTab, isLoading, currentResults, currentCircularity,
                   comparisons, apiHealth, modelMetrics>>
    /\ NoToast
    /\ KeepForm

\* -------------------------------------------------- the page's handlers

\* Mutant of AnalysisRequests: both analysis requests go out together.
AnalysisRequestsInParallel(id, processed) ==
    <<Request(id, "analyzeLCA", <<processed>>),
      Request(id, "analyzeCircularity", <<processed>>)>>

\* The requests handleProcessAnalysis sends before its first await.
AnalysisRequests(id, processed) == <<Request(id, "analyzeLCA", <<processed>>)>>

\* Mutant of CircularityRequest: the request goes out without the process
\* description.
CircularityRequestWithoutInput(t) == Request(t.id, "analyzeCircularity", <<>>)

\* The request it sends once the LCA result is stored (line 64): the same
\* process description again.
CircularityRequest(t) == Request(t.id, "analyzeCircularity", t.arg)

Range(seq) == {seq[i] : i \in 1..Len(seq)}

\* handleProcessAnalysis up to its first await: the busy flag is set and
\* the LCA request goes out.
StartAnalysis(processed) ==
    LET id == FreshId("handleProcessAnalysis")
        sent == AnalysisRequests(id, processed)
    IN  /\ isLoading' = TRUE
        /\ requests' = requests \cup Range(sent)
        /\ tasks' = tasks \cup {Task(id, "handleProcessAnalysis", "analyzeLCA",
                                     <<processed>>, sent)}
        /\ UNCHANGED <<activeTab, currentResults, currentCircularity,
                       comparisons>>
        /\ UNCHANGED mountVars
        /\ NoToast

\* Mutant of AnalysisCatch: no finally block, the busy flag stays set.
AnalysisCatchWithoutFinally(error) ==
    /\ createToast(<<"Analysis failed: ", error.message>>, "error")
    /\ isLoading' = isLoading

\* Mutant of AnalysisCatch: the toast drops the thrown error's message.
AnalysisCatchGenericToast(error) ==
    /\ createToast(<<"Analysis failed">>, "error")
    /\ isLoading' = FALSE

\* The catch and finally blocks of handleProcessAnalysis.
AnalysisCatch(error) ==
    /\ createToast(<<"Analysis failed: ", error.message>>, "error")
    /\ isLoading' = FALSE

\* The LCA request is answered: line 61 stores the result and line 64
\* sends the circularity request with the same process description.
LcaResolves(t, r) ==
    /\ t \in Running("handleProcessAnalysis") /\ t.pc = "analyzeLCA"
    /\ r \in requests /\ r.id = t.id /\ r.op = "analyzeLCA"
    /\ currentResults' = LcaData(r)
    /\ requests' = (requests \ {r}) \cup {CircularityRequest(t)}
    /\ tasks' = (tasks \ {t})
                   \cup {Task(t.id, t.handler, "analyzeCircularity", t.arg,
                              Append(t.issued, CircularityRequest(t)))}
    /\ UNCHANGED <<activeTab, isLoading, currentCircularity, comparisons>>
    /\ NoToast
    /\ UNCHANGED mountVars
    /\ KeepForm

\* Mutant of LcaRejects: a first failure of the LCA request is answered by
\* sending the request again.
LcaRejectsAndRetries(t, r, e) ==
    /\ t \in Running("handleProcessAnalysis") /\ t.pc = "analyzeLCA"
    /\ r \in requests /\ r.id = t.id /\ r.op = "analyzeLCA"
    /\ IF Len(t.issued) < 2
       THEN /\ requests' = requests
            /\ tasks' = (tasks \ {t})
                           \cup {Task(t.id, t.handler, t.pc, t.arg,
                                      Append(t.issued, r))}
            /\ UNCHANGED isLoading
            /\ NoToast
       ELSE /\ AnalysisCatch(GatewayError("analyzeLCA", e))
            /\ requests' = requests \ {r}
            /\ tasks' = tasks \ {t}
    /\ UNCHANGED <<activeTab, currentResults, currentCircularity, comparisons>>
    /\ UNCHANGED mountVars
    /\ KeepForm

\* The LCA request fails: analyzeLCA throws, the handler's catch and
\* finally run, and nothing else of the try block does.
LcaRejects(t, r, e) ==
    /\ t \in Running("handleProcessAnalysis") /\ t.pc = "analyzeLCA"
    /\ r \in requests /\ r.id = t.id /\ r.op = "analyzeLCA"
    /\ AnalysisCatch(GatewayError("analyzeLCA", e))
    /\ requests' = requests \ {r}
    /\ tasks' = tasks \ {t}
    /\ UNCHANGED <<activeTab, currentResults, currentCircularity, comparisons>>
    /\ UNCHANGED mountVars
    /\ KeepForm

\* The circularity request is answered: lines 64-69 and the finally block.
CircularityResolves(t, r) ==
    /\ t \in Running("handleProcessAnalysis") /\ t.pc = "analyzeCircularity"
    /\ r \in requests /\ r.id = t.id /\ r.op = "analyzeCircularity"
    /\ currentCircularity' = CircularityData(r)
    /\ activeTab' = "results"
    /\ createToast(<<"Analysis completed successfully!">>, "success")
    /\ isLoading' = FALSE
    /\ requests' = requests \ {r}
    /\ tasks' = tasks \ {t}
    /\ UNCHANGED <<currentResults, comparisons>>
    /\ UNCHANGED mountVars
    /\ KeepForm

\* The circularity request fails: catch and finally.
CircularityRejects(t, r, e) ==
    /\ t \in Running("handleProcessAnalysis") /\ t.pc = "analyzeCircularity"
    /\ r \in requests /\ r.id = t.id /\ r.op = "analyzeCircularity"
    /\ AnalysisCatch(GatewayError("analyzeCircularity", e))
    /\ requests' = requests \ {r}
    /\ tasks' = tasks \ {t}
    /\ UNCHANGED <<activeTab, currentResults, currentCircularity, comparisons>>
    /\ UNCHANGED mountVars
    /\ KeepForm

\* handleComparisonRequest up to its await.
StartComparison(processes) ==
    LET id == FreshId("handleComparisonRequest")
    IN  /\ isLoading' = TRUE
        /\ requests' = requests \cup {Request(id, "compareProcesses", processes)}
        /\ tasks' = tasks \cup {Task(id, "handleComparisonRequest",
                                     "compareProcesses", processes,
                                     <<Request(id, "compareProcesses", processes)>>)}
        /\ UNCHANGED <<activeTab, currentResults, currentCircularity,
                       comparisons>>
        /\ UNCHANGED mountVars
        /\ NoToast

\* Mutant of CompareResult: the legacy key 'comparisons' is not read.
CompareResultScenariosOnly(result) ==
    IF Has(result, "scenarios") THEN result["scenarios"] ELSE <<>>

\* result.scenarios || result.comparisons || []
CompareResult(result) ==
    IF Has(result, "scenarios") THEN result["scenarios"]
    ELSE IF Has(result, "comparisons") THEN result["comparisons"]
    ELSE <<>>

\* The compare request is answered: lines 85-87 and the finally block.
CompareResolves(t, r, result) ==
    /\ t \in Running("handleComparisonRequest")
    /\ r \in requests /\ r.id = t.id /\ r.op = "compareProcesses"
    /\ comparisons' = CompareResult(result)
    /\ activeTab' = "comparison"
    /\ createToast(<<"Process comparison completed!">>, "success")
    /\ isLoading' = FALSE
    /\ requests' = requests \ {r}
    /\ tasks' = tasks \ {t}
    /\ UNCHANGED <<currentResults, currentCircularity>>
    /\ UNCHANGED mountVars
    /\ KeepForm

\* Mutant of CompareRejects: the catch block also empties the list.
CompareRejectsClearsList(t, r, e) ==
    /\ t \in Running("handleComparisonRequest")
    /\ r \in requests /\ r.id = t.id /\ r.op = "compareProcesses"
    /\ createToast(<<"Comparison failed: ",
                     GatewayError("compareProcesses", e).message>>, "error")
    /\ isLoading' = FALSE
    /\ comparisons' = <<>>
    /\ requests' = requests \ {r}
    /\ tasks' = tasks \ {t}
    /\ UNCHANGED <<activeTab, currentResults, currentCircularity>>
    /\ UNCHANGED mountVars
    /\ KeepForm

\* The compare request fails: catch and finally.
CompareRejects(t, r, e) ==
    /\ t \in Running("handleComparisonRequest")
    /\ r \in requests /\ r.id = t.id /\ r.op = "compareProcesses"
    /\ createToast(<<"Comparison failed: ",
                     GatewayError("compareProcesses", e).message>>, "error")
    /\ isLoading' = FALSE
    /\ requests' = requests \ {r}
    /\ tasks' = tasks \ {t}
    /\ UNCHANGED <<activeTab, currentResults, currentCircularity, comparisons>>
    /\ UNCHANGED mountVars
    /\ KeepForm

\* Mutant of LoadsStored: the listing is fetched only while the queue is
\* empty.
LoadsStoredIfQueueEmpty(tabId) ==
    tabId = "comparison" /\ comparisonProcesses = <<>>

\* Whether a click on the tab makes setActiveTab call loadStoredComparisons.
LoadsStored(tabId) == tabId = "comparison"

\* Mutant of SetActiveTab: the navigation bar ignores clicks while busy.
SetActiveTabUnlessBusy(tabId) ==
    /\ ~isLoading
    /\ tabId \in Tabs
    /\ activeTab' = tabId
    /\ IF LoadsStored(tabId)
       THEN /\ Cardinality(Running("loadStoredComparisons")) < MaxStoredFetches
            /\ requests' = requests
                              \cup {Request(FreshId("loadStoredComparisons"),
                                            "getStoredComparisons", <<>>)}
            /\ tasks' = tasks \cup {Task(FreshId("loadStoredComparisons"),
                                         "loadStoredComparisons",
                                         "getStoredComparisons", <<>>,
                                         <<Request(FreshId("loadStoredComparisons"),
                                                   "getStoredComparisons", <<>>)>>)}
       ELSE UNCHANGED <<tasks, requests>>
    /\ UNCHANGED <<isLoading, currentResults, currentCircularity, comparisons>>
    /\ NoToast
    /\ UNCHANGED mountVars
    /\ KeepForm

\* A click on a navigation tab: setActiveTab, and loadStoredComparisons up
\* to its await when the tab is the comparison tab.  The navigation bar is
\* outside the {#if isLoading} block, so the click is possible at any time.
SetActiveTab(tabId) ==
    /\ tabId \in Tabs
    /\ activeTab' = tabId
    /\ IF LoadsStored(tabId)
       THEN /\ Cardinality(Running("loadStoredComparisons")) < MaxStoredFetches
            /\ requests' = requests
                              \cup {Request(FreshId("loadStoredComparisons"),
                                            "getStoredComparisons", <<>>)}
            /\ tasks' = tasks \cup {Task(FreshId("loadStoredComparisons"),
                                         "loadStoredComparisons",
                                         "getStoredComparisons", <<>>,
                                         <<Request(FreshId("loadStoredComparisons"),
                                                   "getStoredComparisons", <<>>)>>)}
       ELSE UNCHANGED <<tasks, requests>>
    /\ UNCHANGED <<isLoading, currentResults, currentCircularity, comparisons>>
    /\ NoToast
    /\ UNCHANGED mountVars
    /\ KeepForm

\* Mutant of StoredResult: a single stored analysis is mapped, too.
StoredResultFromOne(result) ==
    IF Has(result, "analyses") /\ Len(result["analyses"]) >= 1
    THEN [i \in 1..Len(result["analyses"]) |->
            [process |-> result["analyses"][i].input,
             lca |-> result["analyses"][i].results]]
    ELSE <<>>

\* The transformation of lines 111-118.
StoredResult(result) ==
    IF Has(result, "analyses") /\ Len(result["analyses"]) >= 2
    THEN [i \in 1..Len(result["analyses"]) |->
            [process |-> result["analyses"][i].input,
             lca |-> result["analyses"][i].results]]
    ELSE <<>>

\* Mutant of StoredResolves: the handler clears the busy flag when it is
\* done.
StoredResolvesClearsBusy(t, r, result) ==
    /\ t \in Running("loadStoredComparisons")
    /\ r \in requests /\ r.id = t.id /\ r.op = "getStoredComparisons"
    /\ comparisons' = StoredResult(result)
    /\ isLoading' = FALSE
    /\ requests' = requests \ {r}
    /\ tasks' = tasks \ {t}
    /\ UNCHANGED <<activeTab, currentResults, currentCircularity>>
    /\ NoToast
    /\ UNCHANGED mountVars
    /\ KeepForm

\* The listing request is answered.
StoredResolves(t, r, result) ==
    /\ t \in Running("loadStoredComparisons")
    /\ r \in requests /\ r.id = t.id /\ r.op = "getStoredComparisons"
    /\ comparisons' = StoredResult(result)
    /\ requests' = requests \ {r}
    /\ tasks' = tasks \ {t}
    /\ UNCHANGED <<activeTab, isLoading, currentResults, currentCircularity>>
    /\ NoToast
    /\ UNCHANGED mountVars
    /\ KeepForm

\* The listing request fails: the catch block empties the list.
StoredRejects(t, r, e) ==
    /\ t \in Running("loadStoredComparisons")
    /\ r \in requests /\ r.id = t.id /\ r.op = "getStoredComparisons"
    /\ comparisons' = <<>>
    /\ requests' = requests \ {r}
    /\ tasks' = tasks \ {t}
    /\ UNCHANGED <<activeTab, isLoading, currentResults, currentCircularity>>
    /\ NoToast
    /\ UNCHANGED mountVars
    /\ KeepForm

\* -------------------------------------------------- the form's handlers

\* One input event (bind:value): the control of field f takes the value
\* x, an option's value or '' for a select, a number or null (the control
\* emptied) for a number input.  Nothing else changes; errors stay as the
\* last click left them.
EditForm(f, x) ==
    /\ Mounted(activeTab, isLoading)
    /\ f \in Fields
    /\ IF f \in RequiredSelects THEN TRUE ELSE x.t \in {"null", "num"}
    /\ x # processData[f]
    /\ processData' = [processData EXCEPT ![f] = x]
    /\ UNCHANGED <<errors, isSubmitting, comparisonProcesses, showComparison>>
    /\ UNCHANGED <<pageVars, tasks, requests>>
    /\ NoToast

clearForm ==
    /\ Mounted(activeTab, isLoading)
    /\ processData' = BlankForm
    /\ errors' = NoErrors
    /\ UNCHANGED <<isSubmitting, comparisonProcesses, showComparison>>
    /\ UNCHANGED <<pageVars, tasks, requests>>
    /\ NoToast

loadExampleData ==
    /\ Mounted(activeTab, isLoading)
    /\ processData' = ExampleForm
    /\ errors' = NoErrors
    /\ UNCHANGED <<isSubmitting, comparisonProcesses, showComparison>>
    /\ UNCHANGED <<pageVars, tasks, requests>>
    /\ NoToast

\* The form's submit event fires and handleSubmit runs.  The submit button
\* is disabled while isSubmitting, and the browser fires the event only for
\* controls that satisfy their constraints.  A valid form dispatches
\* analyzeProcess, which the page handles at once (handleProcessAnalysis);
\* the 2 s timer that clears isSubmitting then finds the component already
\* destroyed by the busy flag.
handleSubmit ==
    LET validation == validateProcessInput(processData)
    IN  /\ Mounted(activeTab, isLoading)
        /\ ~isSubmitting
        /\ ConstraintsSatisfied(processData)
        /\ IF validation.isValid
           THEN /\ StartAnalysis(ProcessedData(processData))
                /\ Render(processData, validation.errors, TRUE,
                          comparisonProcesses, showComparison)
           ELSE /\ errors' = validation.errors
                /\ UNCHANGED <<processData, isSubmitting, comparisonProcesses,
                               showComparison>>
                /\ UNCHANGED <<pageVars, tasks, requests>>
                /\ NoToast

\* The submit button is pressed on controls that do not satisfy their
\* constraints: the browser points at the first such control and fires no
\* submit event, so that no handler runs.
submitRefused ==
    /\ Mounted(activeTab, isLoading)
    /\ ~isSubmitting
    /\ ~ConstraintsSatisfied(processData)
    /\ UNCHANGED <<pageVars, formVars, tasks, requests>>
    /\ NoToast

\* The user presses the submit button (or Enter in a field).
SubmitPressed ==
    IF ConstraintsSatisfied(processData) THEN handleSubmit ELSE submitRefused

\* Mutant of addToComparison: the form is queued without being validated.
addToComparisonUnchecked ==
    /\ Mounted(activeTab, isLoading)
    /\ comparisonProcesses' =
          Append(comparisonProcesses, NamedProcessedData(processData))
    /\ showComparison' = TRUE
    /\ UNCHANGED <<processData, errors, isSubmitting>>
    /\ UNCHANGED <<pageVars, tasks, requests>>
    /\ NoToast

\* addToComparison: a valid form is appended to the queue under a
\* synthesized name; an invalid one only has its errors shown.
addToComparison ==
    LET validation == validateProcessInput(processData)
    IN  /\ Mounted(activeTab, isLoading)
        /\ IF validation.isValid
           THEN /\ comparisonProcesses' =
                      Append(comparisonProcesses, NamedProcessedData(processData))
                /\ showComparison' = TRUE
                /\ UNCHANGED errors
           ELSE /\ errors' = validation.errors
                /\ UNCHANGED <<comparisonProcesses, showComparison>>
        /\ UNCHANGED <<processData, isSubmitting>>
        /\ UNCHANGED <<pageVars, tasks, requests>>
        /\ NoToast

\* Mutant of Without: the first entry is removed whatever the index.
WithoutFirst(queue, index) == [i \in 1..(Len(queue) - 1) |-> queue[i + 1]]

\* comparisonProcesses.filter((_, i) => i !== index), index counted from 0.
Without(queue, index) ==
    [i \in 1..(Len(queue) - 1) |-> IF i <= index THEN queue[i] ELSE queue[i + 1]]

\* Mutant of removeFromComparison: the comparison-mode flag is left set.
removeFromComparisonKeepsFlag(index) ==
    /\ Mounted(activeTab, isLoading)
    /\ showComparison
    /\ index \in 0..(Len(comparisonProcesses) - 1)
    /\ comparisonProcesses' = Without(comparisonProcesses, index)
    /\ UNCHANGED <<processData, errors, isSubmitting, showComparison>>
    /\ UNCHANGED <<pageVars, tasks, requests>>
    /\ NoToast

\* The remove button of the queue entry at index; the queue is rendered
\* only while showComparison holds.
removeFromComparison(index) ==
    /\ Mounted(activeTab, isLoading)
    /\ showComparison
    /\ index \in 0..(Len(comparisonProcesses) - 1)
    /\ comparisonProcesses' = Without(comparisonProcesses, index)
    /\ showComparison' = IF Len(comparisonProcesses') = 0 THEN FALSE
                         ELSE showComparison
    /\ UNCHANGED <<processData, errors, isSubmitting>>
    /\ UNCHANGED <<pageVars, tasks, requests>>
    /\ NoToast

\* The test runComparison makes before it dispatches (line 79).
CanCompare(queue) == Len(queue) >= 2

\* The Compare Processes button is rendered (line 382).
CompareOffered == showComparison /\ Len(comparisonProcesses) >= 2

\* runComparison.  The handler tests the queue's length itself: with at
\* least 2 entries it dispatches compareProcesses, which the page handles at
\* once (handleComparisonRequest); with fewer it returns without doing
\* anything.  The form offers its button only while CompareOffered, so the
\* second case is a call the rendered form never makes.
runComparison ==
    /\ Mounted(activeTab, isLoading)
    /\ IF CanCompare(comparisonProcesses)
       THEN /\ StartComparison(comparisonProcesses)
            /\ KeepForm
       ELSE /\ UNCHANGED <<pageVars, formVars, tasks, requests>>
            /\ NoToast

Next ==
    \/ \E tabId \in Tabs : SetActiveTab(tabId)
    \/ \E e \in PageEdits : EditForm(e[1], e[2])
    \/ clearForm
    \/ loadExampleData
    \/ SubmitPressed
    \/ /\ Len(comparisonProcesses) < MaxQueue
             \/ ~validateProcessInput(processData).isValid
       /\ addToComparison
    \/ \E index \in 0..(MaxQueue - 1) : removeFromComparison(index)
    \/ runComparison
    \/ \E t \in tasks, r \in requests : LcaResolves(t, r)
    \/ \E t \in tasks, r \in requests, e \in AxiosErrors : LcaRejects(t, r, e)
    \/ \E t \in tasks, r \in requests : CircularityResolves(t, r)
    \/ \E t \in tasks, r \in requests, e \in AxiosErrors : CircularityRejects(t, r, e)
    \/ \E t \in tasks, r \in requests :
          \E result \in CompareBodies(r) : CompareResolves(t, r, result)
    \/ \E t \in tasks, r \in requests, e \in AxiosErrors : CompareRejects(t, r, e)
    \/ \E t \in tasks, r \in requests, result \in StoredBodies :
          StoredResolves(t, r, result)
    \/ \E t \in tasks, r \in requests, e \in AxiosErrors : StoredRejects(t, r, e)

Spec == Init /\ [][Next]_vars

\* The form component exercised on its own, from a form that holds one of
\* the contents of ValidationInputs and has not been clicked on yet: the
\* required controls are filled in one by one, the queue grows to
\* MaxFormQueue entries, and no response arrives.
FormInit ==
    /\ activeTab = "input"
    /\ isLoading = FALSE
    /\ apiHealth = [status |-> "unknown"]
    /\ currentResults = Null
    /\ currentCircularity = Null
    /\ modelMetrics = Null
    /\ comparisons = <<>>
    /\ processData \in ValidationInputs
    /\ errors = NoErrors
    /\ isSubmitting = FALSE
    /\ comparisonProcesses = <<>>
    /\ showComparison = FALSE
    /\ toasted = <<>>
    /\ tasks = {}
    /\ requests = {}

FormNext ==
    \/ \E e \in FormEdits : EditForm(e[1], e[2])
    \/ clearForm
    \/ loadExampleData
    \/ SubmitPressed
    \/ /\ Len(comparisonProcesses) < MaxFormQueue
             \/ ~validateProcessInput(processData).isValid
       /\ addToComparison
    \/ \E index \in 0..(MaxFormQueue - 1) : removeFromComparison(index)
    \/ runComparison

FormSpec == FormInit /\ [][FormNext]_vars

\* The page from the moment it is mounted: the mount hook's two calls and
\* every handler of the page, with the form filled in by Load Example and
\* the capacity typed, the clicks on the tabs of the form and of the
\* comparison, and the service healthy or out of reach, answering a
\* comparison with its scenarios and a listing with two stored analyses.
MountNext ==
    \/ \E t \in tasks, r \in requests :
          HealthResolves(t, r, [status |-> "healthy"])
    \/ \E t \in tasks, r \in requests, e \in TransportErrors : HealthRejects(t, r, e)
    \/ \E t \in tasks, r \in requests : MetricsResolves(t, r)
    \/ \E t \in tasks, r \in requests, e \in TransportErrors : MetricsRejects(t, r, e)
    \/ \E tabId \in {"input", "comparison"} : SetActiveTab(tabId)
    \/ \E e \in PageEdits : EditForm(e[1], e[2])
    \/ loadExampleData
    \/ SubmitPressed
    \/ /\ Len(comparisonProcesses) < MaxQueue
             \/ ~validateProcessInput(processData).isValid
       /\ addToComparison
    \/ runComparison
    \/ \E t \in tasks, r \in requests : LcaResolves(t, r)
    \/ \E t \in tasks, r \in requests, e \in TransportErrors : LcaRejects(t, r, e)
    \/ \E t \in tasks, r \in requests : CircularityResolves(t, r)
    \/ \E t \in tasks, r \in requests, e \in TransportErrors : CircularityRejects(t, r, e)
    \/ \E t \in tasks, r \in requests :
          CompareResolves(t, r, [k \in {"scenarios"} |-> Scenarios(r)])
    \/ \E t \in tasks, r \in requests, e \in TransportErrors : CompareRejects(t, r, e)
    \/ \E t \in tasks, r \in requests :
          StoredResolves(t, r, [k \in {"analyses"} |-> StoredAnalyses(2)])
    \/ \E t \in tasks, r \in requests, e \in TransportErrors : StoredRejects(t, r, e)

MountSpec == MountInit /\ [][MountNext]_vars

\* Every request of an analysis is answered or fails: the axios client
\* gives each call a timeout of 30 s, so a suspended handleProcessAnalysis
\* is resumed.
FairSpec ==
    /\ Spec
    /\ WF_vars(\E t \in tasks, r \in requests :
                  \/ LcaResolves(t, r)
                  \/ CircularityResolves(t, r)
                  \/ \E e \in AxiosErrors : LcaRejects(t, r, e)
                  \/ \E e \in AxiosErrors : CircularityRejects(t, r, e))

\* ------------------------------------------------------------ properties

\* The invocation t is suspended before the step and gone after it: the
\* handler has returned.
Returned(t) ==
    /\ t \in tasks
    /\ \A u \in tasks' : u.id # t.id \/ u.handler # t.handler

\* A handleProcessAnalysis invocation returns from its catch block: its LCA
\* request failed, or its circularity request did (the step does not store
\* a circularity result for it).
FailedAtLca(t) ==
    t.handler = "handleProcessAnalysis" /\ t.pc = "analyzeLCA" /\ Returned(t)

FailedAtCircularity(t) ==
    /\ t.handler = "handleProcessAnalysis" /\ t.pc = "analyzeCircularity"
    /\ Returned(t)
    /\ currentCircularity' # CircularityData(CircularityRequest(t))

\* A handleProcessAnalysis invocation returns with both results stored.
Succeeded(t) ==
    /\ t.handler = "handleProcessAnalysis" /\ t.pc = "analyzeCircularity"
    /\ Returned(t)
    /\ currentCircularity' = CircularityData(CircularityRequest(t))

AnalysisSuccessToast ==
    [message |-> <<"Analysis completed successfully!">>, type |-> "success"]

\* C1: a runAnalysis whose LCA call succeeds and whose circularity call
\* then fails returns with busy false and without the LCA result that
\* invocation had stored (one started with no result returns with none).
C1_CircularityFailureDiscardsLca ==
    [][\A t \in tasks :
          FailedAtCircularity(t) =>
              /\ ~isLoading'
              /\ currentResults' # LcaData(Request(t.id, "analyzeLCA", t.arg))]_vars

\* The stored LCA result and the stored circularity result are both unset,
\* or both set by the same invocation.
ResultsPaired ==
    \/ currentResults = Null /\ currentCircularity = Null
    \/ /\ currentResults # Null /\ currentCircularity # Null
       /\ currentResults.req = currentCircularity.req

\* C2: whenever no runAnalysis is in flight, the stored LCA result and the
\* stored circularity result are both unset or come from the same
\* invocation.
C2_ResultsAlwaysPaired ==
    Running("handleProcessAnalysis") = {} => ResultsPaired

\* A step of a handleProcessAnalysis invocation: one starts, resumes or
\* returns.
AnalysisStep == Running("handleProcessAnalysis")' # Running("handleProcessAnalysis")

\* C3: a runAnalysis that succeeds has issued exactly two calls, the LCA
\* call and then the circularity call, both with the handler's input; the
\* step that ends it sets activeTab to 'results' and emits the success
\* toast, and no other step of a runAnalysis does either.
C3_SuccessAfterTwoSequentialCalls ==
    [][/\ \A t \in tasks :
             Succeeded(t) =>
                 /\ t.issued = <<Request(t.id, "analyzeLCA", t.arg),
                                 Request(t.id, "analyzeCircularity", t.arg)>>
                 /\ \A r \in requests' :
                        r.id = t.id => r.op \notin {"analyzeLCA", "analyzeCircularity"}
                 /\ currentResults' = LcaData(Request(t.id, "analyzeLCA", t.arg))
                 /\ activeTab' = "results"
                 /\ toasted' = <<AnalysisSuccessToast>>
       /\ (AnalysisStep /\ ~(\E t \in tasks : Succeeded(t))) =>
             /\ activeTab' = activeTab
             /\ toasted' # <<AnalysisSuccessToast>>
       /\ toasted' = <<AnalysisSuccessToast>> => \E t \in tasks : Succeeded(t)]_vars

\* C3 witness: a runAnalysis has just succeeded.
C3_Witness ==
    /\ toasted = <<AnalysisSuccessToast>>
    /\ activeTab = "results"
    /\ ~isLoading
    /\ currentResults # Null /\ currentCircularity # Null
    /\ currentResults.req = currentCircularity.req

\* The LCA call of invocation id has completed successfully: it is no
\* longer outstanding and its result is the stored one.
LcaCompleted(id) ==
    /\ \A q \in requests : ~(q.id = id /\ q.op = "analyzeLCA")
    /\ currentResults # Null /\ currentResults.req = id

\* C4: a circularity call is outstanding only once the LCA call of the same
\* runAnalysis has completed successfully (so the two are never outstanding
\* together); it is issued by the step that receives the LCA result, and a
\* runAnalysis whose LCA call fails returns without having issued it.
C4_CircularityOnlyAfterLca ==
    /\ [](\A r \in requests : r.op = "analyzeCircularity" => LcaCompleted(r.id))
    /\ [][/\ \A r \in requests' \ requests :
                r.op = "analyzeCircularity" =>
                    \E t \in tasks :
                        /\ t.handler = "handleProcessAnalysis"
                        /\ t.id = r.id /\ t.pc = "analyzeLCA"
                        /\ currentResults' = LcaData(Request(t.id, "analyzeLCA", t.arg))
          /\ \A t \in tasks :
                FailedAtLca(t) =>
                    /\ \A r \in requests' :
                          ~(r.id = t.id /\ r.op = "analyzeCircularity")
                    /\ \A i \in 1..Len(t.issued) :
                          t.issued[i].op # "analyzeCircularity"]_vars

\* C4 witness: the circularity call is outstanding, the LCA call answered.
C4_Witness ==
    \E r \in requests :
        /\ r.op = "analyzeCircularity"
        /\ isLoading
        /\ currentResults = LcaData(r)

\* C5: a runAnalysis sets busy when it starts, has busy false when it
\* returns, on the success path and on both failure paths, and, every
\* issued call being answered, does return.
C5_BusySetThenCleared ==
    /\ [][/\ \A t \in Running("handleProcessAnalysis")' :
                (\A u \in Running("handleProcessAnalysis") : u.id # t.id)
                    => isLoading'
          /\ \A t \in tasks :
                (FailedAtLca(t) \/ FailedAtCircularity(t) \/ Succeeded(t))
                    => ~isLoading']_vars
    /\ (Running("handleProcessAnalysis") # {})
          ~> (Running("handleProcessAnalysis") = {} /\ ~isLoading)

\* C5 witness: a runAnalysis has returned from a failure and busy is false.
C5_Witness ==
    /\ ~isLoading
    /\ Running("handleProcessAnalysis") = {}
    /\ toasted # <<>> /\ toasted[1].type = "error"
    /\ toasted[1].message[1] = "Analysis failed: "

\* The message analyzeLCA or analyzeCircularity throws for the failure e.
StageMessage(op, e) ==
    <<IF op = "analyzeLCA" THEN "LCA analysis failed: "
      ELSE "Circularity analysis failed: ",
      IF e.hasResponse /\ e.detail # "" THEN e.detail ELSE e.message>>

\* C6: when the LCA call or the circularity call of a runAnalysis fails,
\* the step emits exactly one toast, an error toast carrying the failing
\* stage's message, and leaves activeTab as it was.
C6_FailureEmitsOneErrorToast ==
    [][\A t \in tasks :
          (FailedAtLca(t) \/ FailedAtCircularity(t)) =>
              /\ \E e \in AxiosErrors :
                    toasted' = <<[message |-> <<"Analysis failed: ",
                                                StageMessage(t.pc, e)>>,
                                  type |-> "error"]>>
              /\ activeTab' = activeTab]_vars

\* C6 witness: the circularity stage has just failed, away from the tab the
\* run was started on.
C6_Witness ==
    /\ Len(toasted) = 1
    /\ toasted[1].type = "error"
    /\ toasted[1].message[1] = "Analysis failed: "
    /\ toasted[1].message[2][1] = "Circularity analysis failed: "
    /\ activeTab = "metrics"

\* C7: at most one runAnalysis and at most one comparison submit are in
\* flight, and no step taken while busy is true starts another.
C7_OneSubmitInFlight ==
    /\ [](/\ Cardinality(Running("handleProcessAnalysis")) <= 1
          /\ Cardinality(Running("handleComparisonRequest")) <= 1)
    /\ [][isLoading =>
             \A t \in Submits' :
                \E u \in Submits : u.id = t.id /\ u.handler = t.handler]_vars

\* C7 witness: a submit is in flight while the user has clicked on through
\* the tabs and a stored-analyses fetch is outstanding as well.
C7_Witness ==
    /\ isLoading
    /\ Cardinality(Submits) = 1
    /\ Running("loadStoredComparisons") # {}
    /\ activeTab = "input"

\* The step sends a stored-analyses request.
FetchIssued == \E r \in requests' \ requests : r.op = "getStoredComparisons"

\* The step ends a comparison submit.
ComparisonReturns ==
    \E t \in tasks : t.handler = "handleComparisonRequest" /\ Returned(t)

\* C8, as claimed: a step that makes 'comparison' the active tab sends the
\* stored-analyses request only when the comparison queue is empty.
C8_FetchOnlyWhenQueueEmpty ==
    [][(activeTab' = "comparison" /\ FetchIssued)
          => comparisonProcesses = <<>>]_vars

\* C8, amended: the stored-analyses request is sent by every step that
\* takes activeTab to 'comparison' from another tab, whatever the queue
\* holds, except the step in which a comparison submit returns (whose own
\* transition sends none); and it is sent by no step that leaves another
\* tab active.
C8_FetchOnEveryTabClick ==
    [][/\ (activeTab # "comparison" /\ activeTab' = "comparison")
             => (FetchIssued <=> ~ComparisonReturns)
       /\ FetchIssued => activeTab' = "comparison"]_vars

\* C8 witness: the comparison tab was clicked while a submit was in flight,
\* and the stored-analyses request is outstanding.
C8_Witness ==
    /\ activeTab = "comparison"
    /\ isLoading
    /\ \E r \in requests : r.op = "getStoredComparisons"

\* The list holds the entries of a live comparison.
IsLive(list) ==
    list # <<>> /\ \A i \in 1..Len(list) : list[i].lca.op = "compare"

\* C9: once comparisons holds a live comparison's entries, a step after
\* which the comparison tab is shown leaves them in place, unless the step
\* ends a comparison submit.
C9_LiveComparisonKept ==
    [][(IsLive(comparisons) /\ activeTab' = "comparison" /\ ~isLoading')
          => (comparisons' = comparisons \/ ComparisonReturns)]_vars

\* C10: a step shortens the comparison queue only by removing one entry
\* from it, the page being left as it was (removeFromComparison).
C10_QueueShrinksOnlyByRemove ==
    [][Len(comparisonProcesses') < Len(comparisonProcesses) =>
          /\ \E index \in 0..(Len(comparisonProcesses) - 1) :
                comparisonProcesses' = Without(comparisonProcesses, index)
          /\ activeTab' = activeTab /\ isLoading' = isLoading
          /\ tasks' = tasks]_vars

\* C11, as claimed: a click on a tab other than 'comparison' sends no
\* request and leaves isLoading, currentResults, currentCircularity,
\* comparisons and the comparison queue as they were.
C11_OtherTabsChangeOnlyActiveTab ==
    [][\A tabId \in Tabs \ {"comparison"} :
          SetActiveTab(tabId) =>
              /\ requests' = requests /\ tasks' = tasks
              /\ UNCHANGED <<isLoading, currentResults, currentCircularity,
                             comparisons>>
              /\ comparisonProcesses' = comparisonProcesses]_vars

\* The step surfaces an error of the form: an entry of the errors map is
\* set or a toast is put up (runComparison returns no value and throws
\* nothing, so that these are the ways it has to report).
ErrorReported == errors' # errors \/ toasted' # <<>>

\* C12: runComparison on a queue of fewer than 2 entries sends no request,
\* starts no handler, changes neither the page's state nor the form's
\* fields, queue and flags, and reports the InsufficientEntries error.
C12_ShortQueueReportsInsufficientEntries ==
    [][(runComparison /\ Len(comparisonProcesses) < 2) =>
          /\ requests' = requests /\ tasks' = tasks
          /\ UNCHANGED <<pageVars, processData, isSubmitting,
                         comparisonProcesses, showComparison>>
          /\ ErrorReported]_vars

\* The comparison list the specification's Normalizer (4.5) yields for a
\* payload: its 'scenarios', else its 'comparisons', else its 'analyses'
\* mapped to {process, lca} when there are at least 2, else nothing.
Normalize(payload) ==
    IF Has(payload, "scenarios") THEN payload["scenarios"]
    ELSE IF Has(payload, "comparisons") THEN payload["comparisons"]
    ELSE IF Has(payload, "analyses") /\ Len(payload["analyses"]) >= 2
    THEN [i \in 1..Len(payload["analyses"]) |->
             [process |-> payload["analyses"][i].input,
              lca |-> payload["analyses"][i].results]]
    ELSE <<>>

\* The step ends the comparison submit t, or the stored-analyses fetch t.
CompareAnswered(t) == t.handler = "handleComparisonRequest" /\ Returned(t)
StoredAnswered(t) == t.handler = "loadStoredComparisons" /\ Returned(t)

\* C13, as claimed: runComparison on a queue of at least 2 entries sends
\* exactly one compare request, whose body is the whole queue in insertion
\* order, and the step that receives the response stores the Normalizer's
\* reading of that response in comparisons.
C13_SubmitSendsQueueAndNormalizes ==
    [][/\ (runComparison /\ Len(comparisonProcesses) >= 2) =>
             /\ Cardinality(requests' \ requests) = 1
             /\ \A r \in requests' \ requests :
                    r.op = "compareProcesses" /\ r.body = comparisonProcesses
       /\ \A t \in tasks \ tasks' :
             CompareAnswered(t) =>
                 \A r \in requests \ requests', result \in CompareBodies(t.issued[1]) :
                    CompareResolves(t, r, result) =>
                        /\ t.issued = <<r>> /\ r.body = t.arg
                        /\ comparisons' = Normalize(result)]_vars

\* C17, as claimed: whichever handler receives a payload, the list it
\* stores in comparisons is the Normalizer's reading of the payload.
C17_OneNormalizerForBothSources ==
    [][\A t \in tasks \ tasks' :
          /\ CompareAnswered(t) =>
                \A r \in requests \ requests', result \in CompareBodies(t.issued[1]) :
                   CompareResolves(t, r, result) => comparisons' = Normalize(result)
          /\ StoredAnswered(t) =>
                \A r \in requests \ requests', result \in StoredBodies :
                   StoredResolves(t, r, result) => comparisons' = Normalize(result)]_vars

\* The payload that holds the list X under key and nothing else.
Under(key, X) == [k \in {key} |-> X]

\* C18: handleComparisonRequest, given the payload {scenarios: X}, stores
\* the list that normalizing {comparisons: X} yields, and the other way
\* round, for X empty and not: no step in which it receives one of the two
\* payloads stores anything else.
C18_ScenariosAndComparisonsAgree ==
    [][\A t \in tasks \ tasks' :
          CompareAnswered(t) =>
              \A r \in requests \ requests', result \in CompareBodies(t.issued[1]) :
                 /\ (/\ DOMAIN result = {"scenarios"}
                     /\ comparisons' # CompareResult(Under("comparisons", result["scenarios"])))
                       => ~CompareResolves(t, r, result)
                 /\ (/\ DOMAIN result = {"comparisons"}
                     /\ comparisons' # CompareResult(Under("scenarios", result["comparisons"])))
                       => ~CompareResolves(t, r, result)]_vars

\* C18 witness: a comparison of two queued processes has just returned and
\* its entries are on the comparison tab.
C18_Witness ==
    /\ toasted = <<[message |-> <<"Process comparison completed!">>, type |-> "success"]>>
    /\ activeTab = "comparison"
    /\ Len(comparisons) = 2
    /\ IsLive(comparisons)

\* The list the claim gives for {analyses: L}.
MappedFromTwo(L) ==
    IF Len(L) >= 2
    THEN [i \in 1..Len(L) |-> [process |-> L[i].input, lca |-> L[i].results]]
    ELSE <<>>

\* C19: loadStoredComparisons, given the payload {analyses: L}, stores a
\* list of the length and order of L whose i-th entry is
\* {process: L[i].input, lca: L[i].results} when L has at least 2 entries,
\* and the empty list when L has 0 or 1: no step in which it receives that
\* payload stores anything else.
C19_AnalysesMappedFromTwo ==
    [][\A t \in tasks \ tasks' :
          StoredAnswered(t) =>
              \A r \in requests \ requests', result \in StoredBodies :
                 (/\ DOMAIN result = {"analyses"}
                  /\ comparisons' # MappedFromTwo(result["analyses"]))
                     => ~StoredResolves(t, r, result)]_vars

\* C19 witness: a listing of three stored analyses is on the comparison
\* tab, oldest first.
C19_Witness ==
    /\ activeTab = "comparison"
    /\ Len(comparisons) = 3
    /\ \A i \in 1..3 : comparisons[i].lca = [op |-> "stored", no |-> i]

\* C14: addToComparison on a form that fails validation leaves the queue
\* and the comparison-mode flag as they were and sets errors to the map
\* validateProcessInput returns for that form.
C14_InvalidAddKeepsQueue ==
    [][(addToComparison /\ ~validateProcessInput(processData).isValid) =>
          /\ comparisonProcesses' = comparisonProcesses
          /\ showComparison' = showComparison
          /\ errors' = validateProcessInput(processData).errors
          /\ DOMAIN errors' # {}]_vars

\* C14 witness: with one entry queued, the metal has been unselected and
\* the form has been rejected: the one entry is still queued and the error
\* of the metal is shown.
C14_Witness ==
    /\ Len(comparisonProcesses) = 1
    /\ showComparison
    /\ processData = [AcceptedForm EXCEPT !.metal_type = ""]
    /\ DOMAIN errors = {"metal_type"}
    /\ errors = validateProcessInput(processData).errors

\* C15: addToComparison on a valid form makes the queue one longer, keeps
\* the entries it had in their places and puts at the end an entry named
\* "<metal_type> - <process_route>", also when an equal entry is queued
\* already.
C15_ValidAddAppendsNamedEntry ==
    [][(addToComparison /\ validateProcessInput(processData).isValid) =>
          /\ Len(comparisonProcesses') = Len(comparisonProcesses) + 1
          /\ SubSeq(comparisonProcesses', 1, Len(comparisonProcesses))
                = comparisonProcesses
          /\ comparisonProcesses'[Len(comparisonProcesses')].name
                = <<processData.metal_type, " - ", processData.process_route>>
          /\ \A f \in RequiredSelects :
                comparisonProcesses'[Len(comparisonProcesses')][f] = processData[f]]_vars

\* C15 witness: the same form has been queued twice.
C15_Witness ==
    /\ Len(comparisonProcesses) = 2
    /\ comparisonProcesses[1] = comparisonProcesses[2]
    /\ comparisonProcesses[2].name = <<"Aluminium", " - ", "Primary">>

\* C16: removeFromComparison(index), index counted from 0 and within the
\* queue, takes out the entry at index and keeps the others in their
\* order; afterwards showComparison is false if and only if the queue is
\* empty.
C16_RemoveTakesOutOneEntry ==
    [][\A index \in 0..(Len(comparisonProcesses) - 1) :
          removeFromComparison(index) =>
              /\ Len(comparisonProcesses') = Len(comparisonProcesses) - 1
              /\ \A i \in 1..index :
                    comparisonProcesses'[i] = comparisonProcesses[i]
              /\ \A i \in (index + 1)..Len(comparisonProcesses') :
                    comparisonProcesses'[i] = comparisonProcesses[i + 1]
              /\ showComparison' = (comparisonProcesses' # <<>>)]_vars

\* C16 witness: three different entries are queued and the remove button
\* of the one in the middle can be pressed.
C16_Witness ==
    /\ Len(comparisonProcesses) = 3
    /\ comparisonProcesses[1] # comparisonProcesses[2]
    /\ comparisonProcesses[2] # comparisonProcesses[3]
    /\ comparisonProcesses[1] # comparisonProcesses[3]
    /\ showComparison
    /\ ENABLED removeFromComparison(1)

\* A numeric field holds a value: it is neither '' nor null.
Present(x) == x.t \in {"num", "numstr"}

\* Validity as the specification words it: the six required fields are
\* there, the capacity is above 0, the energy consumption and the transport
\* distance are absent or at least 0, and the ore grade and the recycling
\* rate are absent or within [0, 100].
ValidAsSpecified(input) ==
    /\ \A f \in RequiredSelects : input[f] # ""
    /\ Present(input.production_capacity) /\ input.production_capacity.v > 0
    /\ \A f \in {"energy_consumption", "transport_distance"} :
          ~Present(input[f]) \/ input[f].v >= 0
    /\ \A f \in {"ore_grade", "recycling_rate"} :
          ~Present(input[f]) \/ (input[f].v >= 0 /\ input[f].v <= 100)

\* C20: validateProcessInput finds the form valid if and only if it is
\* valid as the specification words it; handleSubmit, which runs on
\* controls the browser accepts, starts the analysis for such a form only,
\* and addToComparison appends exactly those forms.
C20_ValidIffRequiredAndInRange ==
    /\ [](validateProcessInput(processData).isValid <=> ValidAsSpecified(processData))
    /\ [][/\ handleSubmit => (isLoading' <=> ValidAsSpecified(processData))
          /\ addToComparison =>
                ((comparisonProcesses' # comparisonProcesses)
                    <=> ValidAsSpecified(processData))]_vars

\* C20 witness: a form valid but for an ore grade of 150 has been
\* validated, and the ore grade is the one error shown.
C20_Witness ==
    /\ processData.ore_grade = Num(150)
    /\ DOMAIN errors = {"ore_grade"}
    /\ \A f \in RequiredSelects : processData[f] # ""

\* The field fails a check as the specification words them: a required
\* field is missing, the capacity is not above 0, or a bounded field holds
\* a value outside its range.
Violates(input, f) ==
    CASE f \in RequiredSelects -> input[f] = ""
      [] f = "production_capacity" -> ~Present(input[f]) \/ input[f].v <= 0
      [] f \in {"energy_consumption", "transport_distance"} ->
            Present(input[f]) /\ input[f].v < 0
      [] f \in {"ore_grade", "recycling_rate"} ->
            Present(input[f]) /\ (input[f].v < 0 \/ input[f].v > 100)

\* C21: the errors map validateProcessInput returns has an entry for every
\* field that fails a check and for no other field, and that is the map
\* addToComparison shows for a form it rejects.
C21_ErrorsAreExactlyTheViolations ==
    /\ [](DOMAIN validateProcessInput(processData).errors
             = {f \in Fields : Violates(processData, f)})
    /\ [][(addToComparison /\ \E f \in Fields : Violates(processData, f))
             => DOMAIN errors' = {f \in Fields : Violates(processData, f)}]_vars

\* C21 witness: the untouched form has been offered to the comparison queue
\* and all six required fields, and only they, have an error.
C21_Witness ==
    /\ processData = BlankForm
    /\ DOMAIN errors = RequiredSelects \cup {"production_capacity"}

\* What the service is to receive for an optional field: nothing (null)
\* when the user left the field empty, the user's number otherwise.
Threaded(x) == IF Present(x) THEN Num(x.v) ELSE Null

\* C22, as claimed: in the description a submit sends to the service, and
\* in the one addToComparison queues for the compare request, every
\* optional field is absent exactly when the user left it absent and holds
\* the user's value otherwise.
C22_OptionalFieldsThreadedUnchanged ==
    [][/\ \A r \in requests' \ requests :
             r.op = "analyzeLCA" =>
                 \A f \in OptionalNumbers : r.body[1][f] = Threaded(processData[f])
       /\ (addToComparison /\ Len(comparisonProcesses') > Len(comparisonProcesses)) =>
             \A f \in OptionalNumbers :
                comparisonProcesses'[Len(comparisonProcesses')][f]
                    = Threaded(processData[f])]_vars

\* C30: while the form is mounted, showComparison holds if and only if the
\* queue is not empty, and the Compare Processes button is offered if and
\* only if the queue holds at least 2 entries.
C30_FlagAndButtonFollowQueue ==
    Mounted(activeTab, isLoading) =>
        /\ showComparison <=> comparisonProcesses # <<>>
        /\ CompareOffered <=> Len(comparisonProcesses) >= 2

\* C30 witness: entries were added and removed until one is left, and the
\* flag is set without the button being offered.
C30_Witness ==
    /\ Mounted(activeTab, isLoading)
    /\ Len(comparisonProcesses) = 1
    /\ comparisonProcesses[1].name = <<"Aluminium", " - ", "Primary">>
    /\ processData = BlankForm
    /\ showComparison /\ ~CompareOffered

\* C23: pressing the submit button on a form that fails validation sends
\* no request and starts no handler, leaves isLoading, activeTab, the
\* stored results and the comparison list as they were, creates no toast,
\* and shows the failures in the form's errors map.
C23_InvalidSubmitStaysInline ==
    [][(SubmitPressed /\ ~validateProcessInput(processData).isValid) =>
          /\ requests' = requests /\ tasks' = tasks
          /\ UNCHANGED pageVars
          /\ toasted' = <<>>
          /\ errors' = validateProcessInput(processData).errors
          /\ DOMAIN errors' # {}
          /\ UNCHANGED <<processData, comparisonProcesses, showComparison>>]_vars

\* The requests an invocation suspended at pc has sent: one per gateway
\* operation it has called, in the order of the calls.
IssuedOnce(t) ==
    t.issued =
        CASE t.pc = "analyzeLCA" -> <<Request(t.id, "analyzeLCA", t.arg)>>
          [] t.pc = "analyzeCircularity" ->
                <<Request(t.id, "analyzeLCA", t.arg),
                  Request(t.id, "analyzeCircularity", t.arg)>>
          [] t.pc = "compareProcesses" ->
                <<Request(t.id, "compareProcesses", t.arg)>>
          [] t.pc = "getStoredComparisons" ->
                <<Request(t.id, "getStoredComparisons", <<>>)>>

\* The request r is the first of an invocation the step has started.
StartsInvocation(r) ==
    \E t \in tasks' :
        /\ t.issued = <<r>>
        /\ \A u \in tasks : u.id # t.id \/ u.handler # t.handler

\* The request r is the circularity request of an invocation whose LCA
\* request the step has seen answered with a result.
FollowsLcaResult(r) ==
    /\ r.op = "analyzeCircularity"
    /\ \E t \in tasks \ tasks' :
          /\ t.handler = "handleProcessAnalysis" /\ t.pc = "analyzeLCA"
          /\ t.id = r.id
          /\ currentResults' = LcaData(Request(t.id, "analyzeLCA", t.arg))

\* The gateway operations a handler calls.
OpsOf(handler) ==
    CASE handler = "handleProcessAnalysis" -> {"analyzeLCA", "analyzeCircularity"}
      [] handler = "handleComparisonRequest" -> {"compareProcesses"}
      [] handler = "loadStoredComparisons" -> {"getStoredComparisons"}

\* C24: no failed call is sent again.  Every suspended invocation has sent
\* exactly one request for each gateway operation it has called; a step
\* sends a request only as the first request of an invocation the user
\* starts in that step (submit, compare, click on the comparison tab) or
\* as the circularity request after the LCA result; and once an invocation
\* has returned, whether it failed or not, none of its requests is left.
C24_NoAutomaticRetry ==
    /\ [](\A t \in tasks : IssuedOnce(t))
    /\ [][\A r \in requests' \ requests :
             \/ FollowsLcaResult(r)
             \/ /\ StartsInvocation(r)
                /\ handleSubmit \/ runComparison \/ SetActiveTab("comparison")]_vars
    /\ [][\A t \in tasks \ tasks' :
             Returned(t) =>
                 /\ requests' \subseteq requests
                 /\ \A r \in requests' :
                       r.id # t.id \/ r.op \notin OpsOf(t.handler)]_vars

\* C24 witness: a comparison submit has just failed after an analysis had
\* succeeded; no request is outstanding and no invocation is suspended.
C24_Witness ==
    /\ Len(toasted) = 1
    /\ toasted[1].type = "error"
    /\ toasted[1].message[1] = "Comparison failed: "
    /\ currentCircularity # Null
    /\ requests = {}
    /\ tasks = {}

\* A handleComparisonRequest invocation returns from its catch block: the
\* step puts up no success toast.
CompareFailed(t) ==
    /\ t.handler = "handleComparisonRequest"
    /\ Returned(t)
    /\ \A i \in 1..Len(toasted') : toasted'[i].type # "success"

\* C27: when the compare call of a comparison submit fails, comparisons
\* and activeTab are what they were before the step, the step emits exactly
\* one toast, an error toast that carries the thrown message, and busy is
\* false after the step.
C27_CompareFailureKeepsView ==
    [][\A t \in tasks \ tasks' :
          CompareFailed(t) =>
              /\ comparisons' = comparisons
              /\ activeTab' = activeTab
              /\ \E e \in AxiosErrors :
                    toasted' = <<[message |-> <<"Comparison failed: ",
                                                <<"Process comparison failed: ",
                                                  e.message>>>>,
                                  type |-> "error"]>>
              /\ ~isLoading']_vars

\* C27 witness: a second comparison submit has just failed while the
\* entries of the first are on display and the user has moved to the
\* metrics tab.
C27_Witness ==
    /\ Len(toasted) = 1
    /\ toasted[1].type = "error"
    /\ toasted[1].message[1] = "Comparison failed: "
    /\ Len(comparisons) = 2
    /\ activeTab = "metrics"
    /\ ~isLoading

\* A handleComparisonRequest invocation returns from its try block.
CompareSucceeded(t) ==
    /\ t.handler = "handleComparisonRequest"
    /\ Returned(t)
    /\ toasted' = <<[message |-> <<"Process comparison completed!">>,
                     type |-> "success"]>>

\* C29: while busy every tab can be clicked (the comparison tab as long
\* as the model's bound on outstanding listing requests allows); a
\* runAnalysis that succeeds sets activeTab to 'results' and a comparison
\* submit that succeeds sets it to 'comparison', whatever tab was selected
\* meanwhile; and the step of the comparison submit sends no request and
\* starts no listing fetch.
C29_CompletionOverridesTab ==
    /\ [](isLoading =>
             \A tabId \in Tabs :
                (LoadsStored(tabId) =>
                    Cardinality(Running("loadStoredComparisons")) < MaxStoredFetches)
                    => ENABLED SetActiveTab(tabId))
    /\ [][\A t \in tasks \ tasks' :
             /\ Succeeded(t) => activeTab' = "results"
             /\ CompareSucceeded(t) =>
                   /\ activeTab' = "comparison"
                   /\ requests' \subseteq requests
                   /\ Running("loadStoredComparisons")'
                         = Running("loadStoredComparisons")]_vars

\* C29 witness: a comparison submit is in flight and the user has clicked
\* on to the metrics tab.
C29_Witness ==
    /\ isLoading
    /\ Running("handleComparisonRequest") # {}
    /\ activeTab = "metrics"

\* The kind tag the failure e would carry: 'transport' when no response
\* came back, 'application' when the service answered with an error status.
KindOf(e) == IF e.hasResponse THEN "application" ELSE "transport"

\* The value thrown by the gateway operation op for the failure e is a
\* ServiceError: it carries a status, a message and the failure's kind.
IsServiceError(thrown, e) ==
    /\ {"status", "message", "kind"} \subseteq DOMAIN thrown
    /\ thrown.kind = KindOf(e)
    /\ thrown.status = e.status

\* The step's toast shows the message of the value thrown.
ToastShows(prefix, thrown) ==
    toasted' = <<[message |-> <<prefix, thrown.message>>, type |-> "error"]>>

\* C26: whenever a gateway operation fails (the LCA, circularity or compare
\* call of a submit), the value its caller catches, whose message the
\* caller's toast shows, is a ServiceError with a status, a message and a
\* kind tag that is 'transport' for a failure without a response and
\* 'application' for an error response.
C26_FailuresAreServiceErrors ==
    [][\A t \in tasks \ tasks' :
          /\ (FailedAtLca(t) \/ FailedAtCircularity(t)) =>
                \E e \in AxiosErrors :
                    /\ ToastShows("Analysis failed: ", GatewayError(t.pc, e))
                    /\ IsServiceError(GatewayError(t.pc, e), e)
          /\ CompareFailed(t) =>
                \E e \in AxiosErrors :
                    /\ ToastShows("Comparison failed: ", GatewayError(t.pc, e))
                    /\ IsServiceError(GatewayError(t.pc, e), e)]_vars

\* The step is one in which a call to the service fails and the page's
\* catch block runs: the health check, the metrics load, a stage of an
\* analysis, a comparison, or the listing of stored analyses.
ServiceFailure ==
    \E t \in tasks, r \in requests, e \in AxiosErrors :
        \/ HealthRejects(t, r, e)
        \/ MetricsRejects(t, r, e)
        \/ LcaRejects(t, r, e)
        \/ CircularityRejects(t, r, e)
        \/ CompareRejects(t, r, e)
        \/ StoredRejects(t, r, e)

\* C25: every step in which a service call fails and the page's handler
\* catches the error puts up one error toast.
C25_EveryFailureNotifies ==
    [][ServiceFailure =>
          /\ Len(toasted') = 1
          /\ toasted'[1].type = "error"]_vars

\* The invocations of the handlers that do not hold the busy flag: the
\* mount hook and the listing fetch.
Background(T) == {t \in T : t.handler \in {"onMount", "loadStoredComparisons"}}

\* C28: busy is true exactly while a runAnalysis or a comparison submit
\* is in flight, and no step in which the mount hook (health check, metrics
\* load) or a listing fetch starts, advances or returns changes busy.
C28_BusyIffSubmitInFlight ==
    /\ [](isLoading <=> Submits # {})
    /\ [][Background(tasks') # Background(tasks) => isLoading' = isLoading]_vars

\* C28 witness: a submit is in flight and holds the busy flag while the
\* health check has been answered, the metrics load is outstanding and a
\* listing fetch is outstanding, too.
C28_Witness ==
    /\ isLoading
    /\ Submits # {}
    /\ apiHealth.status = "healthy"
    /\ \E t \in Running("onMount") : t.pc = "getModelMetrics"
    /\ Running("loadStoredComparisons") # {}

====
